---- MODULE Spec2Model ----
(***************************************************************************)
(* Rapid7 Insight Agent installer scripts.                                 *)
(*                                                                         *)
(* Two revisions of the same pipeline live in the repository:              *)
(*   "strict" : src/python/rapid7/rapid7_insight_agent_install.py          *)
(*   "legacy" : src/python/rapid7_insight_agent_install.py                 *)
(* A run is one execution of main(): validate, download_file, install_msi. *)
(* Strings the code inspects (url, token) are sequences of one-character   *)
(* strings, so startswith / len / re.match are computed, not assumed.      *)
(***************************************************************************)
EXTENDS Integers, Sequences, FiniteSets, TLC

(* ------------------------------ bounds -------------------------------- *)

\* Largest number of chunks the remote stream holds.
MaxChunks == 2

\* Byte count of the last (short) chunk of a stream.
TailBytes == 100

(* ------------------------- program constants -------------------------- *)

\* iter_content(chunk_size=8192)
ChunkSize == 8192

\* len(token) < 10
MinTokenLen == 10

\* logging level numbers: basicConfig(level=logging.CRITICAL), logging.error, logging.info
CRITICAL == 50
ERROR == 40
INFO == 20

(* ------------------------------ strings ------------------------------- *)

Rep(c, n) == [i \in 1..n |-> c]

LowerAlpha ==
    {"a","b","c","d","e","f","g","h","i","j","k","l","m",
     "n","o","p","q","r","s","t","u","v","w","x","y","z"}

HexDigit ==
    {"0","1","2","3","4","5","6","7","8","9",
     "a","b","c","d","e","f","A","B","C","D","E","F"}

\* str.startswith(prefix)
StartsWith(s, prefix) ==
    /\ Len(s) >= Len(prefix)
    /\ SubSeq(s, 1, Len(prefix)) = prefix

HttpPrefix == <<"h","t","t","p",":","/","/">>
HttpsPrefix == <<"h","t","t","p","s",":","/","/">>

\* not url.startswith("http://") and not url.startswith("https://")
UrlSchemeRejected(u) ==
    ~StartsWith(u, HttpPrefix) /\ ~StartsWith(u, HttpsPrefix)

\* The regular expression of token_pattern, one character class per position:
\* [a-z]{2} : [0-9a-fA-F]{8} - {4} - {4} - {4} - {12}
PatternClasses ==
    Rep(LowerAlpha, 2) \o <<{":"}>> \o Rep(HexDigit, 8) \o <<{"-"}>>
        \o Rep(HexDigit, 4) \o <<{"-"}>> \o Rep(HexDigit, 4) \o <<{"-"}>>
        \o Rep(HexDigit, 4) \o <<{"-"}>> \o Rep(HexDigit, 12)

\* The characters between ^ and $ of the pattern.
MatchesClasses(t) ==
    /\ Len(t) = Len(PatternClasses)
    /\ \A i \in 1..Len(t) : t[i] \in PatternClasses[i]

\* token_pattern.match(token): re.match anchors at the start, and "$" matches at
\* the end of the string or just before a newline that ends the string.
TokenPatternMatch(t) ==
    \/ MatchesClasses(t)
    \/ /\ Len(t) = Len(PatternClasses) + 1
       /\ t[Len(t)] = "\n"
       /\ MatchesClasses(SubSeq(t, 1, Len(t) - 1))

\* TokenTooShort with the minimum taken one character past the pattern's length.
TokenTooShortPastPattern(t) == Len(t) <= Len(PatternClasses) + 1

\* len(token) < 10
TokenTooShort(t) == Len(t) < MinTokenLen

(* ------------------------------- inputs ------------------------------- *)

UrlHttps == HttpsPrefix \o <<"e","/","a">>
UrlHttp == HttpPrefix \o <<"e","/","a">>
UrlFtp == <<"f","t","p",":","/","/","e","/","a">>
UrlUpper == <<"H","T","T","P","S",":","/","/","e","/","a">>

Urls == {UrlHttps, UrlHttp, UrlFtp, UrlUpper}

\* us:AAAAAAAA-BBBB-CCCC-DDDD-EEEEEEEEEEEE
TokenA ==
    <<"u","s",":">> \o Rep("A", 8) \o <<"-">> \o Rep("B", 4) \o <<"-">>
        \o Rep("C", 4) \o <<"-">> \o Rep("D", 4) \o <<"-">> \o Rep("E", 12)

\* eu:0a0a0a0a-... (lower-case hexadecimal digits)
TokenB ==
    <<"e","u",":">> \o Rep("0", 8) \o <<"-">> \o Rep("a", 4) \o <<"-">>
        \o Rep("f", 4) \o <<"-">> \o Rep("9", 4) \o <<"-">> \o Rep("c", 12)

TokenShort == <<"s","h","o","r","t">>

\* Upper-case region id: long enough, wrong shape.
TokenUpperRegion ==
    <<"U","S",":">> \o Rep("A", 8) \o <<"-">> \o Rep("B", 4) \o <<"-">>
        \o Rep("C", 4) \o <<"-">> \o Rep("D", 4) \o <<"-">> \o Rep("E", 12)

\* A well-formed token followed by a line feed.
TokenNewline == TokenA \o <<"\n">>

\* Nine and ten characters: either side of the length check.
TokenNine == <<"u","s",":">> \o Rep("A", 6)
TokenTen == <<"u","s",":">> \o Rep("A", 7)

Tokens ==
    {TokenA, TokenB, TokenShort, TokenUpperRegion, TokenNewline, TokenNine, TokenTen}

(* ------------------------------- paths -------------------------------- *)

\* A path is [abs, parts]; the process's working directory is /tmp.
Cwd == <<"tmp">>

DirValid == [abs |-> TRUE, parts |-> <<"tmp", "valid">>]
DirValidRelative == [abs |-> FALSE, parts |-> <<"valid">>]
DirReadOnly == [abs |-> TRUE, parts |-> <<"ro">>]
DirMissing == [abs |-> TRUE, parts |-> <<"no", "such", "dir">>]

DirArgs == {DirValid, DirValidRelative, DirReadOnly, DirMissing}

\* os.path.abspath
AbsPath(p) == IF p.abs THEN p ELSE [abs |-> TRUE, parts |-> Cwd \o p.parts]

\* MsiPath with the file name not joined to the target directory: the artifact
\* lands in the working directory.
MsiPathInCwd(dir) == [abs |-> TRUE, parts |-> Append(Cwd, "agentInstaller.msi")]

\* os.path.join(target_directory, "agentInstaller.msi")
MsiPath(dir) == [abs |-> dir.abs, parts |-> Append(dir.parts, "agentInstaller.msi")]

\* The host's directories: os.path.isdir and os.access(.., os.W_OK).
IsDir(p) == p \in {DirValid, DirReadOnly}
Writable(p) == p = DirValid

ArtifactPaths == {MsiPath(AbsPath(d)) : d \in DirArgs}

\* The files of the host the model follows: the artifact paths, and in the
\* working directory the installer's log name and a stray artifact name.
HostPaths ==
    ArtifactPaths \cup
        {[abs |-> TRUE, parts |-> Append(Cwd, "agentInstaller.msi")],
         [abs |-> TRUE, parts |-> Append(Cwd, "insight_agent_install_log.log")]}

(* ------------------------------ files --------------------------------- *)

NoPath == [abs |-> FALSE, parts |-> <<>>]
NoFile == [exists |-> FALSE, data |-> <<>>]

\* What the server sends for a body of n chunks: full chunks, then a short one.
Source(n) == [i \in 1..n |-> [seq |-> i, len |-> IF i = n THEN TailBytes ELSE ChunkSize]]
Sources == {Source(n) : n \in 0..MaxChunks}

\* A file left by an earlier installation, k chunks long.
OldFile(k) == [exists |-> TRUE, data |-> [i \in 1..k |-> [seq |-> 0, len |-> ChunkSize]]]

RECURSIVE ByteCount(_)
ByteCount(data) ==
    IF data = <<>> THEN 0 ELSE data[1].len + ByteCount(Tail(data))

(* ---------------------------- exceptions ------------------------------ *)

NoFailure == [kind |-> "none", site |-> "none", code |-> 0, cmd |-> <<>>]

\* sys.exit(1) taken in a validation branch of main.
Rejected(site) == [kind |-> "SystemExit", site |-> site, code |-> 1, cmd |-> <<>>]

Exc(kind, site, code) == [kind |-> kind, site |-> site, code |-> code, cmd |-> <<>>]

\* subprocess.CalledProcessError(returncode, cmd)
CalledProcessError(code, cmd) ==
    [kind |-> "CalledProcessError", site |-> "subprocess.run", code |-> code, cmd |-> cmd]

\* The subclasses of requests.exceptions.RequestException raised here.
IsRequestException(e) == e.kind \in {"InvalidSchema", "ConnectionError", "HTTPError"}

\* IOError is OSError.
IsOSError(e) == e.kind = "OSError"

(* -------------------------- emitted text ------------------------------ *)

\* One piece of text written by the program: where, the fixed text, and the
\* values formatted into it (a path, an exception).
Msg(channel, text, path, exc) ==
    [channel |-> channel, text |-> text, path |-> path, exc |-> exc]

\* logging.basicConfig(level=logging.CRITICAL, ...): a record below the level is
\* dropped; one at or above it goes to the root handler (stderr).
LogRecord(level, text, path, exc) ==
    IF level >= CRITICAL THEN <<Msg("stderr", text, path, exc)>> ELSE <<>>

\* print(...) / print(..., file=sys.stderr)
Echo(channel, text, path, exc) == <<Msg(channel, text, path, exc)>>

\* A progress line: logging.info in the strict revision, print in the legacy one.
Progress(rev, text) ==
    IF rev = "strict"
    THEN LogRecord(INFO, text, NoPath, NoFailure)
    ELSE Echo("stdout", text, NoPath, NoFailure)

\* The text of an exception on its way from where it is raised to main's handler:
\* download_file's and install_msi's except clauses (strict), then main's.
RaisedText(rev, e, path) ==
    IF rev = "strict"
    THEN (IF e.site = "subprocess.run" /\ e.kind = "CalledProcessError"
            THEN LogRecord(ERROR, "MSI installation failed: %s", NoPath, e)
          ELSE IF e.site = "spawn" THEN <<>>
          ELSE IF IsRequestException(e)
            THEN LogRecord(ERROR, "Failed to download file: %s", NoPath, e)
          ELSE IF IsOSError(e)
            THEN LogRecord(ERROR, "Failed to write file to %s: %s", path, e)
          ELSE <<>>)
         \o LogRecord(ERROR, "An error occurred: %s", NoPath, e)
    ELSE Echo("stderr", "An error occurred: {e}", NoPath, e)

\* Caught with OSError left out of the strict revision's except clause.
CaughtWithoutOSError(rev, e) ==
    IF rev = "strict"
    THEN IsRequestException(e) \/ e.kind = "CalledProcessError"
    ELSE TRUE

\* main's except clause: (requests.RequestException, subprocess.CalledProcessError,
\* OSError) in the strict revision, Exception in the legacy one.
Caught(rev, e) ==
    IF rev = "strict"
    THEN IsRequestException(e) \/ e.kind = "CalledProcessError" \/ IsOSError(e)
    ELSE TRUE

(* ------------------------- installer command -------------------------- *)

Arg(lit) == [lit |-> lit, path |-> NoPath, str |-> <<>>]
PathArg(lit, p) == [lit |-> lit, path |-> p, str |-> <<>>]
StrArg(lit, s) == [lit |-> lit, path |-> NoPath, str |-> s]

\* Command with the target directory handed to /i in place of the installer.
CommandInstallsDir(rev, msi_path, dir, tok) ==
    <<Arg("msiexec"), Arg("/i"), PathArg("", dir),
      Arg("/l*v"), Arg("insight_agent_install_log.log"),
      PathArg("CUSTOMCONFIGPATH=", dir),
      StrArg("CUSTOMTOKEN=", tok),
      Arg("/quiet")>>
    \o (IF rev = "strict" THEN <<Arg("/qn")>> ELSE <<>>)

\* install_msi's command list.
Command(rev, msi_path, dir, tok) ==
    <<Arg("msiexec"), Arg("/i"), PathArg("", msi_path),
      Arg("/l*v"), Arg("insight_agent_install_log.log"),
      PathArg("CUSTOMCONFIGPATH=", dir),
      StrArg("CUSTOMTOKEN=", tok),
      Arg("/quiet")>>
    \o (IF rev = "strict" THEN <<Arg("/qn")>> ELSE <<>>)

(* ------------------------------- state -------------------------------- *)

VARIABLES
    revision,          \* which script runs: "strict" or "legacy"
    url,               \* args.url
    target_directory,  \* args.target_directory, then its os.path.abspath
    token,             \* args.token
    pc,                \* where main() is
    fs,                \* the artifact files on disk, by path
    response,          \* status code of the response, 0 before there is one
    source,            \* the chunks the server has for this response
    sent,              \* chunks of the body written so far
    fileOpen,          \* the 'with open(...)' handle is open
    failure,           \* what ended the run: the exit branch or the exception
    crashed,           \* the exception left main() uncaught
    exitCode,          \* the process exit status, once pc is Done or Failed
    emitted,           \* text written to stdout / stderr / the log handler
    argv,              \* the command handed to subprocess.run
    getCalls,          \* calls of requests.get in this run
    netCalls,          \* requests that went out on the network in this run
    spawnCalls,        \* calls of subprocess.run in this run
    entered,           \* the pipeline stages entered in this run, in order
    envlog,            \* what the network, the disk and the installer answered
    rerun,             \* this is the second run on the host
    prev,              \* the first run, as its caller saw it
    checks,            \* the validation checks made in this run, in order
    fs0                \* the files as they were when this run started

vars ==
    <<revision, url, target_directory, token, pc, fs, response, source, sent,
      fileOpen, failure, crashed, exitCode, emitted, argv, getCalls, netCalls,
      spawnCalls, entered, envlog, rerun, prev, checks, fs0>>

Revisions == {"strict", "legacy"}

\* HTTP status codes the server may answer with.
Statuses == {200, 404, 500}

\* Exit statuses of msiexec.
ExitCodes == {0, 1, 1603}

\* The pipeline stage a position of main() belongs to.
Stage(p) ==
    CASE p = "Start" -> "Start"
      [] p \in {"CheckURL", "CheckTokenLen", "CheckTokenPattern",
                "CheckDir", "CheckWritable"} -> "Validating"
      [] p \in {"Fetching", "RaiseForStatus", "Open", "Streaming"} -> "Fetching"
      [] p = "Installing" -> "Installing"
      [] p = "Done" -> "Done"
      [] OTHER -> "Failed"

Goto(p) ==
    /\ pc' = p
    /\ entered' = IF Stage(p) # Stage(pc) THEN Append(entered, Stage(p)) ELSE entered

NoRun ==
    [revision |-> "none", url |-> <<>>, dir |-> NoPath, token |-> <<>>,
     final |-> "none", exitCode |-> 0, emitted |-> <<>>, envlog |-> <<>>,
     failure |-> NoFailure, entered |-> <<>>, argv |-> <<>>]

\* The state of a process that has just parsed its arguments.
Fresh(rev, u, d, t) ==
    /\ revision = rev
    /\ url = u
    /\ target_directory = d
    /\ token = t
    /\ pc = "Start"
    /\ response = 0
    /\ source = <<>>
    /\ sent = 0
    /\ fileOpen = FALSE
    /\ failure = NoFailure
    /\ crashed = FALSE
    /\ exitCode = 0
    /\ emitted = <<>>
    /\ argv = <<>>
    /\ getCalls = 0
    /\ netCalls = 0
    /\ spawnCalls = 0
    /\ entered = <<"Start">>
    /\ envlog = <<>>
    /\ checks = <<>>

\* Files on the host before the first run: nothing, or an older installer at
\* the artifact path of the writable directory.
InitialFiles ==
    {[p \in HostPaths |-> IF p = MsiPath(DirValid) THEN f ELSE NoFile] :
        f \in {NoFile, OldFile(1), OldFile(MaxChunks + 1)}}

Init ==
    /\ \E rev \in Revisions, u \in Urls, d \in DirArgs, t \in Tokens :
          Fresh(rev, u, d, t)
    /\ fs \in InitialFiles
    /\ fs0 = fs
    /\ rerun = FALSE
    /\ prev = NoRun

(* --------------------------- leaving main() --------------------------- *)

\* sys.exit(1) in a validation branch, after logging.error / print of the reason.
Reject(site, text, path) ==
    /\ Goto("Failed")
    /\ failure' = Rejected(site)
    /\ exitCode' = 1
    /\ emitted' = emitted \o
          (IF revision = "strict"
           THEN LogRecord(ERROR, text, path, NoFailure)
           ELSE Echo("stderr", text, path, NoFailure))
    /\ UNCHANGED crashed

\* Where an exception of the fetch step is raised.
FetchSites == {"requests.get", "raise_for_status", "open", "iter_content", "write"}

\* Raise with download_file's except clauses logging but not re-raising: main
\* goes on to the install step.
RaiseNotReraised(e, before) ==
    IF e.site \in FetchSites
    THEN /\ Goto("Installing")
         /\ failure' = e
         /\ emitted' = emitted \o before
         /\ UNCHANGED <<exitCode, crashed>>
    ELSE /\ Goto("Failed")
         /\ failure' = e
         /\ exitCode' = 1
         /\ emitted' = emitted \o before
               \o RaisedText(revision, e, MsiPath(target_directory))
         /\ crashed' = FALSE

\* Raise with one more attempt of requests.get after a first connection failure.
RaiseWithRetry(e, before) ==
    IF e.kind = "ConnectionError" /\ e.site = "requests.get" /\ getCalls = 0
    THEN /\ pc' = "Fetching"
         /\ emitted' = emitted \o before
         /\ UNCHANGED <<entered, failure, exitCode, crashed>>
    ELSE /\ Goto("Failed")
         /\ failure' = e
         /\ exitCode' = 1
         /\ emitted' = emitted \o before
               \o RaisedText(revision, e, MsiPath(target_directory))
         /\ crashed' = FALSE

\* Raise with main's handler printing the error and returning: the process ends
\* with exit status 0 as after a completed installation.
RaiseSwallowed(e, before) ==
    /\ Goto("Done")
    /\ failure' = e
    /\ exitCode' = 0
    /\ emitted' = emitted \o before
          \o RaisedText(revision, e, MsiPath(target_directory))
    /\ crashed' = FALSE

\* Raise with the legacy handler lacking its sys.exit(1).
RaiseLegacyNoExit(e, before) ==
    /\ Goto("Failed")
    /\ failure' = e
    /\ exitCode' = IF revision = "legacy" THEN 0 ELSE 1
    /\ emitted' = emitted \o before
          \o RaisedText(revision, e, MsiPath(target_directory))
    /\ crashed' = FALSE

\* An exception e raised below main's try: handled (message, sys.exit(1)) when
\* the except clause names it, a traceback and exit status 1 otherwise.
Raise(e, before) ==
    /\ Goto("Failed")
    /\ failure' = e
    /\ exitCode' = 1
    /\ IF Caught(revision, e)
       THEN /\ emitted' = emitted \o before
                  \o RaisedText(revision, e, MsiPath(target_directory))
            /\ crashed' = FALSE
       ELSE /\ emitted' = emitted \o before
                  \o Echo("stderr", "Traceback (most recent call last)", NoPath, e)
            /\ crashed' = TRUE

(* ----------------------------- validation ----------------------------- *)

Pass(p) ==
    /\ Goto(p)
    /\ UNCHANGED <<failure, crashed, exitCode, emitted>>

\* FirstCheck with the directory probe ahead of the URL and token checks.
FirstCheckDir(rev) == "CheckDir"

\* The first check main() makes.
FirstCheck(rev) == IF rev = "strict" THEN "CheckURL" ELSE "CheckDir"

\* main() up to the first check: the strict revision takes the absolute path of
\* the target directory here, the legacy one right before its isdir check.
Start ==
    /\ pc = "Start"
    /\ target_directory' =
          IF revision = "strict" THEN AbsPath(target_directory) ELSE target_directory
    /\ Pass(FirstCheck(revision))
    /\ UNCHANGED <<revision, url, token, fs, response, source, sent, fileOpen,
                   argv, getCalls, netCalls, spawnCalls, envlog, rerun, prev,
                   checks, fs0>>

CheckURL ==
    /\ pc = "CheckURL"
    /\ checks' = Append(checks, "url")
    /\ IF UrlSchemeRejected(url)
       THEN Reject("url",
                   "Invalid URL format. URL must start with 'http://' or 'https://'.",
                   NoPath)
       ELSE Pass("CheckTokenLen")
    /\ UNCHANGED <<revision, url, target_directory, token, fs, response, source,
                   sent, fileOpen, argv, getCalls, netCalls, spawnCalls, envlog,
                   rerun, prev, fs0>>

CheckTokenLen ==
    /\ pc = "CheckTokenLen"
    /\ checks' = Append(checks, "token_length")
    /\ IF TokenTooShort(token)
       THEN Reject("token_length",
                   "Invalid token. Token must be at least 10 characters long.",
                   NoPath)
       ELSE Pass("CheckTokenPattern")
    /\ UNCHANGED <<revision, url, target_directory, token, fs, response, source,
                   sent, fileOpen, argv, getCalls, netCalls, spawnCalls, envlog,
                   rerun, prev, fs0>>

CheckTokenPattern ==
    /\ pc = "CheckTokenPattern"
    /\ checks' = Append(checks, "token_format")
    /\ IF ~TokenPatternMatch(token)
       THEN Reject("token_format", "Invalid token format.", NoPath)
       ELSE Pass("CheckDir")
    /\ UNCHANGED <<revision, url, target_directory, token, fs, response, source,
                   sent, fileOpen, argv, getCalls, netCalls, spawnCalls, envlog,
                   rerun, prev, fs0>>

\* Where main() goes once its last check has passed.
AfterDirCheck(rev) == IF rev = "strict" THEN "CheckWritable" ELSE "Fetching"

CheckDir ==
    /\ pc = "CheckDir"
    /\ checks' = Append(checks, "isdir")
    /\ LET d == IF revision = "strict" THEN target_directory
                ELSE AbsPath(target_directory)
       IN /\ target_directory' = d
          /\ IF ~IsDir(d)
             THEN Reject("isdir",
                         IF revision = "strict"
                         THEN "The target directory '%s' does not exist."
                         ELSE "Error: The target directory '{target_directory}' does not exist.",
                         d)
             ELSE Pass(AfterDirCheck(revision))
    /\ UNCHANGED <<revision, url, token, fs, response, source, sent, fileOpen,
                   argv, getCalls, netCalls, spawnCalls, envlog, rerun, prev, fs0>>

CheckWritable ==
    /\ pc = "CheckWritable"
    /\ checks' = Append(checks, "access")
    /\ IF ~Writable(target_directory)
       THEN Reject("access", "The target directory '%s' is not writable.",
                   target_directory)
       ELSE Pass("Fetching")
    /\ UNCHANGED <<revision, url, target_directory, token, fs, response, source,
                   sent, fileOpen, argv, getCalls, netCalls, spawnCalls, envlog,
                   rerun, prev, fs0>>

(* ------------------------------ download ------------------------------ *)

ToLower(c) ==
    CASE c = "H" -> "h" [] c = "T" -> "t" [] c = "P" -> "p" [] c = "S" -> "s"
      [] OTHER -> c

\* requests finds a transport adapter by the lower-cased URL; a URL with no
\* adapter raises InvalidSchema / MissingSchema before anything is sent.
HasAdapter(u) ==
    LET l == [i \in 1..Len(u) |-> ToLower(u[i])]
    IN StartsWith(l, HttpPrefix) \/ StartsWith(l, HttpsPrefix)

Env(what, code, n) == [what |-> what, code |-> code, n |-> n]

\* download_file: requests.get(url, stream=True). Code 0 stands for no response
\* (connection refused, timeout).
RequestsGet ==
    /\ pc = "Fetching"
    /\ getCalls' = getCalls + 1
    /\ LET before == Progress(revision, "Downloading MSI installer...")
       IN IF ~HasAdapter(url)
          THEN /\ Raise(Exc("InvalidSchema", "requests.get", 0), before)
               /\ UNCHANGED <<netCalls, response, source, envlog>>
          ELSE /\ netCalls' = netCalls + 1
               /\ \E code \in {0} \cup Statuses :
                  \E src \in IF code = 200 THEN Sources ELSE {<<>>} :
                     /\ envlog' = Append(envlog, Env("get", code, Len(src)))
                     /\ IF code = 0
                        THEN /\ Raise(Exc("ConnectionError", "requests.get", 0), before)
                             /\ UNCHANGED <<response, source>>
                        ELSE /\ response' = code
                             /\ source' = src
                             /\ Goto("RaiseForStatus")
                             /\ emitted' = emitted \o before
                             /\ UNCHANGED <<failure, crashed, exitCode>>
    /\ UNCHANGED <<revision, url, target_directory, token, fs, sent, fileOpen,
                   argv, spawnCalls, rerun, prev,
                   checks, fs0>>

\* response.raise_for_status()
RaiseForStatus ==
    /\ pc = "RaiseForStatus"
    /\ IF response >= 400
       THEN Raise(Exc("HTTPError", "raise_for_status", response), <<>>)
       ELSE Pass("Open")
    /\ UNCHANGED <<revision, url, target_directory, token, fs, response, source,
                   sent, fileOpen, argv, getCalls, netCalls, spawnCalls, envlog,
                   rerun, prev,
                   checks, fs0>>

\* Opened with mode 'ab': what is there stays, writes go after it.
OpenedForAppend(file) == [exists |-> TRUE, data |-> file.data]

\* The file after open(target_path, 'wb'): created, or truncated to nothing.
Opened(file) == [exists |-> TRUE, data |-> <<>>]

\* open(target_path, 'wb'): creates the file or truncates the one there.
OpenFile ==
    /\ pc = "Open"
    /\ \E ok \in {Writable(target_directory), FALSE} :
          /\ envlog' = Append(envlog, Env("open", IF ok THEN 1 ELSE 0, 0))
          /\ IF ok
             THEN /\ fs' = [fs EXCEPT ![MsiPath(target_directory)] = Opened(@)]
                  /\ fileOpen' = TRUE
                  /\ Pass("Streaming")
             ELSE /\ Raise(Exc("OSError", "open", 0), <<>>)
                  /\ UNCHANGED <<fs, fileOpen>>
    /\ UNCHANGED <<revision, url, target_directory, token, response, source,
                   sent, argv, getCalls, netCalls, spawnCalls, rerun, prev,
                   checks, fs0>>

\* Written with the file reopened for every chunk: only the last one stays.
WrittenLastOnly(data, chunk) == <<chunk>>

\* file.write(chunk) on the open file.
Written(data, chunk) == Append(data, chunk)

\* One turn of 'for chunk in response.iter_content(...): file.write(chunk)':
\* the chunk arrives and is written, or the transfer breaks, or the write fails.
\* Leaving the with block on an exception closes the file as it is.
StreamChunk ==
    /\ pc = "Streaming"
    /\ sent < Len(source)
    /\ \E r \in {"chunk", "ConnectionError", "OSError"} :
          /\ envlog' = Append(envlog, Env(r, 0, sent + 1))
          /\ IF r = "chunk"
             THEN /\ fs' = [fs EXCEPT ![MsiPath(target_directory)].data =
                               Written(@, source[sent + 1])]
                  /\ sent' = sent + 1
                  /\ Pass("Streaming")
                  /\ UNCHANGED fileOpen
             ELSE /\ Raise(Exc(r, IF r = "OSError" THEN "write" ELSE "iter_content", 0),
                           <<>>)
                  /\ fileOpen' = FALSE
                  /\ UNCHANGED <<fs, sent>>
    /\ UNCHANGED <<revision, url, target_directory, token, response, source,
                   argv, getCalls, netCalls, spawnCalls, rerun, prev,
                   checks, fs0>>

\* The body is exhausted: the with block closes the file, download_file returns.
EndOfStream ==
    /\ pc = "Streaming"
    /\ sent = Len(source)
    /\ fileOpen' = FALSE
    /\ Goto("Installing")
    /\ emitted' = emitted \o Progress(revision, "Download complete.")
    /\ UNCHANGED <<revision, url, target_directory, token, fs, response, source,
                   sent, failure, crashed, exitCode, argv, getCalls, netCalls,
                   spawnCalls, envlog, rerun, prev,
                   checks, fs0>>

(* ------------------------------ install ------------------------------- *)

\* CheckFails with check=False: no return code raises.
CheckFailsNever(code) == FALSE

\* check=True: a non-zero return code raises CalledProcessError.
CheckFails(code) == code # 0

\* install_msi: subprocess.run(command, check=True). Code -1 stands for a
\* process that could not be started (msiexec not found: an OSError).
SubprocessRun ==
    /\ pc = "Installing"
    /\ spawnCalls' = spawnCalls + 1
    /\ LET before == Progress(revision, "Installing MSI installer...")
           cmd == Command(revision, MsiPath(target_directory), target_directory, token)
       IN /\ argv' = cmd
          /\ \E code \in {-1} \cup ExitCodes :
                /\ envlog' = Append(envlog, Env("msiexec", code, 0))
                /\ IF code = -1
                   THEN Raise(Exc("OSError", "spawn", 0), before)
                   ELSE IF CheckFails(code)
                   THEN Raise(CalledProcessError(code, cmd), before)
                   ELSE /\ Goto("Done")
                        /\ emitted' = emitted \o before
                              \o Progress(revision, "Installation complete.")
                        /\ exitCode' = 0
                        /\ UNCHANGED <<failure, crashed>>
    /\ UNCHANGED <<revision, url, target_directory, token, fs, response, source,
                   sent, fileOpen, getCalls, netCalls, rerun, prev,
                   checks, fs0>>

(* ------------------------------- re-run ------------------------------- *)

\* The second invocation repeats the first one or changes one thing about it:
\* the script revision, the URL, the target directory or the token.
OneChange(rev, u, d, t) ==
    (IF rev # revision THEN 1 ELSE 0) + (IF u # url THEN 1 ELSE 0)
        + (IF AbsPath(d) # AbsPath(target_directory) THEN 1 ELSE 0)
        + (IF t # token THEN 1 ELSE 0) <= 1

\* The process has exited; its caller starts the script once more on the same
\* host. The files stay as the first run left them.
Restart ==
    /\ pc \in {"Done", "Failed"}
    /\ ~rerun
    /\ rerun' = TRUE
    /\ prev' = [revision |-> revision, url |-> url, dir |-> target_directory,
                token |-> token, final |-> pc, exitCode |-> exitCode,
                emitted |-> emitted, envlog |-> envlog, failure |-> failure,
                entered |-> entered, argv |-> argv]
    /\ \E rev \in Revisions, u \in Urls, d \in DirArgs, t \in Tokens :
          /\ OneChange(rev, u, d, t)
          /\ revision' = rev
          /\ url' = u
          /\ target_directory' = d
          /\ token' = t
    /\ pc' = "Start"
    /\ response' = 0
    /\ source' = <<>>
    /\ sent' = 0
    /\ fileOpen' = FALSE
    /\ failure' = NoFailure
    /\ crashed' = FALSE
    /\ exitCode' = 0
    /\ emitted' = <<>>
    /\ argv' = <<>>
    /\ getCalls' = 0
    /\ netCalls' = 0
    /\ spawnCalls' = 0
    /\ entered' = <<"Start">>
    /\ envlog' = <<>>
    /\ checks' = <<>>
    /\ fs0' = fs
    /\ UNCHANGED fs

Next ==
    \/ Start
    \/ CheckURL
    \/ CheckTokenLen
    \/ CheckTokenPattern
    \/ CheckDir
    \/ CheckWritable
    \/ RequestsGet
    \/ RaiseForStatus
    \/ OpenFile
    \/ StreamChunk
    \/ EndOfStream
    \/ SubprocessRun
    \/ Restart

Spec == Init /\ [][Next]_vars

(* ======================= properties of the runs ======================= *)

Terminal == pc \in {"Done", "Failed"}

\* The artifact file of the current run.
Artifact == fs[MsiPath(target_directory)]

\* The last answer the environment gave in this run.
LastEnv == IF envlog = <<>> THEN Env("none", 0, 0) ELSE envlog[Len(envlog)]

\* The request passes every check of the validator: URL scheme, token length and
\* pattern, target directory present and writable.
RequestValid(u, t, d) ==
    /\ ~UrlSchemeRejected(u)
    /\ ~TokenTooShort(t)
    /\ TokenPatternMatch(t)
    /\ IsDir(AbsPath(d))
    /\ Writable(AbsPath(d))

\* A step of the fetch stage or a later one has been taken in this run.
FetchInvoked == getCalls > 0 \/ Stage(pc) \in {"Fetching", "Installing", "Done"}
InstallInvoked == spawnCalls > 0 \/ Stage(pc) \in {"Installing", "Done"}

\* The run was rejected for its token (length pre-filter or pattern).
BadTokenFormat == failure \in {Rejected("token_length"), Rejected("token_format")}

\* The text of message m shows string t: str() of a CalledProcessError prints
\* its command list, every argument included.
MsgShows(m, t) == \E j \in 1..Len(m.exc.cmd) : m.exc.cmd[j].str = t

\* What the caller of the process gets to see: the exit status and the text.
Observed == <<exitCode, emitted>>
PrevObserved == <<prev.exitCode, prev.emitted>>

\* C1: a token that does not match the pattern (URL and target directory
\* valid) is never fetched for nor installed with: the run does not reach Done,
\* download_file and install_msi are not invoked, and when the run has ended it
\* has failed for its token format.
C1_BadTokenNeverFetched ==
    (/\ ~TokenPatternMatch(token)
     /\ ~UrlSchemeRejected(url)
     /\ IsDir(AbsPath(target_directory))
     /\ Writable(AbsPath(target_directory)))
    => /\ ~FetchInvoked
       /\ ~InstallInvoked
       /\ Terminal => (pc = "Failed" /\ BadTokenFormat)

\* C1 read for the strict revision alone.
C1_StrictBadTokenNeverFetched == revision = "strict" => C1_BadTokenNeverFetched

\* C2: a URL that starts with neither http:// nor https:// never reaches the
\* network: download_file is not called, nothing is sent, and when the run has
\* ended it has failed for its URL scheme.
C2_BadUrlNeverRequested ==
    UrlSchemeRejected(url)
    => /\ getCalls = 0
       /\ netCalls = 0
       /\ ~FetchInvoked
       /\ Terminal => (pc = "Failed" /\ failure = Rejected("url"))

\* C2 read for the strict revision alone.
C2_StrictBadUrlNeverRequested == revision = "strict" => C2_BadUrlNeverRequested

\* C3 (strict revision): after a fetch that broke while the body was being
\* written (transfer or write failure, at least one chunk on disk), the file
\* under the artifact name is absent or holds no fewer bytes than the source
\* stream.
C3_NoTruncatedArtifact ==
    (/\ revision = "strict"
     /\ pc = "Failed"
     /\ failure.site \in {"iter_content", "write"}
     /\ sent >= 1)
    => \/ ~Artifact.exists
       \/ ByteCount(Artifact.data) >= ByteCount(source)

\* C4: the token is in no text the program writes, on any outcome, and two runs
\* that differ only in the token (same script, URL, directory and the same
\* answers from network, disk and installer) write the same text.
C4_TokenNeverEmitted ==
    /\ \A i \in 1..Len(emitted) : ~MsgShows(emitted[i], token)
    /\ (/\ rerun
        /\ Terminal
        /\ prev.revision = revision
        /\ prev.url = url
        /\ prev.dir = target_directory
        /\ prev.token # token
        /\ prev.envlog = envlog)
       => emitted = prev.emitted

\* C4 read for the strict revision alone.
C4_StrictTokenNeverEmitted ==
    (revision = "strict" /\ (rerun => prev.revision = "strict"))
    => C4_TokenNeverEmitted

\* C5 (strict revision): with URL and token valid, a missing target directory
\* ends the run in the isdir branch and a read-only one in the access branch,
\* and the caller sees different outcomes for the two.
C5_DirOutcomesDistinct ==
    (/\ revision = "strict"
     /\ Terminal
     /\ ~UrlSchemeRejected(url)
     /\ ~TokenTooShort(token)
     /\ TokenPatternMatch(token))
    => /\ ~IsDir(target_directory) => failure = Rejected("isdir")
       /\ (IsDir(target_directory) /\ ~Writable(target_directory))
             => failure = Rejected("access")
       /\ (/\ rerun
           /\ prev.revision = "strict"
           /\ {failure, prev.failure} = {Rejected("isdir"), Rejected("access")})
          => Observed # PrevObserved

\* The first two parts of C5: the two directory failures end in their own branch.
C5_DirBranches ==
    (/\ revision = "strict"
     /\ Terminal
     /\ ~UrlSchemeRejected(url)
     /\ ~TokenTooShort(token)
     /\ TokenPatternMatch(token))
    => /\ ~IsDir(target_directory) => failure = Rejected("isdir")
       /\ (IsDir(target_directory) /\ ~Writable(target_directory))
             => failure = Rejected("access")

\* The last two stages entered in this run.
LastStages == SubSeq(entered, Len(entered) - 1, Len(entered))

\* C6: when msiexec has exited with a non-zero code c, the run has failed with
\* the CalledProcessError that carries c, the process exits non-zero, no stage
\* follows the install stage, and the artifact fetched in this run is on disk.
C6_NonZeroExitFails ==
    (LastEnv.what = "msiexec" /\ LastEnv.code \notin {0, -1})
    => /\ pc = "Failed"
       /\ failure = CalledProcessError(LastEnv.code, argv)
       /\ exitCode = 1
       /\ LastStages = <<"Installing", "Failed">>
       /\ Artifact.exists
       /\ Artifact.data = source

C6_Witness ==
    /\ revision = "strict"
    /\ pc = "Failed"
    /\ failure.kind = "CalledProcessError"
    /\ failure.code = 1603
    /\ Artifact.exists

\* C7: when the fetch step has failed (HTTP error status, transfer failure,
\* open or write failure), the run has gone from Fetching to Failed and the
\* installer was not started.
C7_FetchFailureSkipsInstall ==
    failure.site \in FetchSites
    => /\ pc = "Failed"
       /\ LastStages = <<"Fetching", "Failed">>
       /\ spawnCalls = 0
       /\ argv = <<>>

C7_Witness ==
    /\ revision = "strict"
    /\ pc = "Failed"
    /\ failure.kind = "HTTPError"
    /\ failure.code = 404
    /\ spawnCalls = 0

\* C8: fetch has started only for a request the validator accepts, and install
\* has started only after the fetch of this run completed: response received
\* without error status, the artifact holding the whole stream, the file closed.
C8_StagesOnlyAfterPredecessor ==
    /\ FetchInvoked => RequestValid(url, token, target_directory)
    /\ InstallInvoked
       => /\ getCalls = 1
          /\ response \in Statuses /\ response < 400
          /\ Artifact.exists
          /\ Artifact.data = source
          /\ ~fileOpen

\* C8 read for the strict revision alone.
C8_StrictStagesOnlyAfterPredecessor ==
    revision = "strict" => C8_StagesOnlyAfterPredecessor

\* C9: in one run no stage is entered twice, requests.get is called at most
\* once, at most one request goes out, and subprocess.run is called at most once.
C9_NoStageTwice ==
    /\ \A i, j \in 1..Len(entered) : entered[i] = entered[j] => i = j
    /\ getCalls <= 1
    /\ netCalls <= 1
    /\ spawnCalls <= 1

C9_Witness ==
    /\ pc = "Failed"
    /\ failure.kind = "ConnectionError"
    /\ failure.site = "requests.get"
    /\ getCalls = 1
    /\ netCalls = 1

\* C10: a run that has ended exits 0 exactly when it reached Done; Done means
\* the checks of the revision passed, the fetch completed and msiexec exited 0;
\* every failure is handled (no traceback) and exits non-zero.
C10_ExitCodeZeroIffDone ==
    Terminal
    => /\ exitCode = 0 <=> pc = "Done"
       /\ ~crashed
       /\ pc = "Done"
          => /\ LastEnv = Env("msiexec", 0, 0)
             /\ response = 200
             /\ Artifact.data = source
             /\ IsDir(target_directory)
             /\ revision = "strict" => RequestValid(url, token, target_directory)
       /\ pc = "Failed" => (failure # NoFailure /\ exitCode # 0)

C10_Witness ==
    /\ revision = "strict"
    /\ pc = "Failed"
    /\ failure = Exc("OSError", "spawn", 0)
    /\ exitCode = 1

\* The failure category of what ended a run.
Category(f) ==
    CASE f.kind = "SystemExit" -> "ValidationError"
      [] f.site \in FetchSites -> "FetchError"
      [] f.site \in {"spawn", "subprocess.run"} -> "InstallError"
      [] OTHER -> "none"

\* C11 (strict revision): a failed run exits non-zero, and two failed runs that
\* ended in different categories (validation, fetch, install) show their caller
\* different outcomes.
C11_CategoriesDistinct ==
    (revision = "strict" /\ pc = "Failed")
    => /\ exitCode # 0
       /\ (/\ rerun
           /\ prev.revision = "strict"
           /\ prev.final = "Failed"
           /\ Category(prev.failure) # Category(failure))
          => Observed # PrevObserved

\* Every failed run of the strict revision exits non-zero and falls in one of
\* the three categories.
C11_FailuresNonZero ==
    (revision = "strict" /\ pc = "Failed")
    => /\ exitCode # 0
       /\ Category(failure) \in {"ValidationError", "FetchError", "InstallError"}

\* <targetDirectory>/agentInstaller.msi, with the target directory made absolute.
ArtifactName ==
    [abs |-> TRUE,
     parts |-> Append(AbsPath(target_directory).parts, "agentInstaller.msi")]

\* C12: a run that ended in a validation failure has left every file as it was
\* and started no process; and no run changes a file other than
\* <targetDirectory>/agentInstaller.msi.
C12_OnlyArtifactWritten ==
    /\ (pc = "Failed" /\ failure.kind = "SystemExit")
       => (fs = fs0 /\ spawnCalls = 0 /\ argv = <<>> /\ getCalls = 0)
    /\ \A p \in HostPaths : p # ArtifactName => fs[p] = fs0[p]

C12_Witness ==
    /\ revision = "strict"
    /\ token = TokenShort
    /\ pc = "Failed"
    /\ failure = Rejected("token_length")
    /\ ~UrlSchemeRejected(url)
    /\ Writable(target_directory)

\* A run that passed validation and wrote its artifact, other files untouched.
C12_WitnessWritten ==
    /\ pc = "Done"
    /\ fs # fs0
    /\ fs[ArtifactName].data = source

\* C13: once the fetch step has succeeded, the file at the destination path
\* holds exactly the chunks of the stream, in order, and as many bytes,
\* whatever was at that path before.
C13_ArtifactIsTheStream ==
    Stage(pc) \in {"Installing", "Done"}
    => /\ Artifact.exists
       /\ Artifact.data = source
       /\ ByteCount(Artifact.data) = ByteCount(source)

\* A stream of at least two chunks fetched over a longer file.
C13_Witness ==
    /\ pc = "Installing"
    /\ Len(source) >= 2
    /\ fs0[MsiPath(target_directory)].exists
    /\ Len(fs0[MsiPath(target_directory)].data) > Len(source)

\* The same over a shorter file.
C13_WitnessShorter ==
    /\ pc = "Installing"
    /\ fs0[MsiPath(target_directory)].exists
    /\ Len(fs0[MsiPath(target_directory)].data) < Len(source)

\* The validator's checks in their order.
CheckOrder == <<"url", "token_length", "token_format", "isdir", "access">>

\* The request of this run violates the named check.
Violates(name) ==
    CASE name = "url" -> UrlSchemeRejected(url)
      [] name = "token_length" -> TokenTooShort(token)
      [] name = "token_format" -> ~TokenPatternMatch(token)
      [] name = "isdir" -> ~IsDir(AbsPath(target_directory))
      [] name = "access" -> ~Writable(AbsPath(target_directory))

\* C14 (strict revision): the checks run in the order URL scheme, token
\* (length, pattern), directory exists, directory writable; a check is made
\* only after all earlier ones passed; a run the validator ended reports the
\* earliest violated check and made no later check or filesystem probe.
C14_ChecksInOrder ==
    revision = "strict"
    => /\ Len(checks) <= Len(CheckOrder)
       /\ checks = SubSeq(CheckOrder, 1, Len(checks))
       /\ \A i \in 1..(Len(checks) - 1) : ~Violates(checks[i])
       /\ (Terminal /\ \E i \in 1..Len(CheckOrder) : Violates(CheckOrder[i]))
          => LET first == CHOOSE i \in 1..Len(CheckOrder) :
                             /\ Violates(CheckOrder[i])
                             /\ \A j \in 1..(i - 1) : ~Violates(CheckOrder[j])
             IN /\ failure = Rejected(CheckOrder[first])
                /\ checks = SubSeq(CheckOrder, 1, first)

\* A request wrong in every respect: only the URL check was made.
C14_Witness ==
    /\ revision = "strict"
    /\ pc = "Failed"
    /\ UrlSchemeRejected(url)
    /\ ~TokenPatternMatch(token)
    /\ ~IsDir(target_directory)
    /\ checks = <<"url">>

\* C15: the artifact path is the absolute target directory joined with
\* 'agentInstaller.msi', the same in every run with that directory; and when a
\* run that follows a failed one has fetched, the artifact holds the chunks of
\* its own stream only, whatever the failed run left there.
C15_RerunOverwrites ==
    /\ MsiPath(AbsPath(target_directory)) = ArtifactName
    /\ (rerun /\ AbsPath(prev.dir) = AbsPath(target_directory)
              /\ prev.argv # <<>> /\ argv # <<>>)
       => prev.argv[3].path = argv[3].path
    /\ (rerun /\ prev.final = "Failed" /\ Stage(pc) \in {"Installing", "Done"})
       => fs[ArtifactName] = [exists |-> TRUE, data |-> source]

\* The first run broke off in the middle of its transfer and left a partial
\* file; the second run has fetched over it.
C15_Witness ==
    /\ rerun
    /\ prev.final = "Failed"
    /\ prev.failure.site = "iter_content"
    /\ fs0[ArtifactName].exists
    /\ Len(fs0[ArtifactName].data) >= 1
    /\ fs0[ArtifactName].data # source
    /\ pc = "Installing"

\* The quiet flags of a revision: /quiet, and /qn in the strict one.
QuietFlags ==
    IF revision = "strict" THEN <<Arg("/quiet"), Arg("/qn")>> ELSE <<Arg("/quiet")>>

\* C16: the installer is started as msiexec /i <artifact> /l*v <log file>
\* CUSTOMCONFIGPATH=<absolute target directory> CUSTOMTOKEN=<token> and the
\* quiet flags, where <artifact> is the file the fetch step of this run wrote
\* and <token> is the request's token as given; nothing else in the command
\* comes from the request.
C16_InstallerCommand ==
    spawnCalls > 0
    => /\ argv = <<Arg("msiexec"), Arg("/i"), PathArg("", ArtifactName),
                   Arg("/l*v"), Arg("insight_agent_install_log.log"),
                   PathArg("CUSTOMCONFIGPATH=", AbsPath(target_directory)),
                   StrArg("CUSTOMTOKEN=", token)>> \o QuietFlags
       /\ IsDir(argv[6].path) /\ argv[6].path.abs
       /\ fs[argv[3].path].exists
       /\ fs[argv[3].path].data = source

\* A first run of the strict revision that fetched a new artifact and installed it.
C16_Witness ==
    /\ spawnCalls > 0
    /\ revision = "strict"
    /\ prev.revision = "none"
    /\ fs0[ArtifactName] # fs[ArtifactName]
    /\ Len(source) >= 1
    /\ pc = "Done"

\* A step of the running script: every action but the caller's Restart.
MainStep ==
    \/ Start
    \/ CheckURL
    \/ CheckTokenLen
    \/ CheckTokenPattern
    \/ CheckDir
    \/ CheckWritable
    \/ RequestsGet
    \/ RaiseForStatus
    \/ OpenFile
    \/ StreamChunk
    \/ EndOfStream
    \/ SubprocessRun

\* One run of the script from its start to its exit. The interpreter keeps
\* executing main(), and requests.get, iter_content and subprocess.run each
\* return or raise: a step of the script that can be taken is taken.
FairSpec == Init /\ [][MainStep]_vars /\ WF_vars(MainStep)

\* C17: every run eventually ends in Done or in Failed; an ended run stays as it
\* ended (one terminal state, one exit status); and Done is entered only from
\* the install stage, on installer exit status 0.
C17_RunsTerminate ==
    /\ [](~Terminal => <>Terminal)
    /\ [][Terminal => (pc' = pc /\ exitCode' = exitCode /\ failure' = failure)]_vars
    /\ [][(pc' = "Done" /\ pc # "Done")
          => (pc = "Installing" /\ LastEnv' = Env("msiexec", 0, 0))]_vars

\* Failed entered from Installing, on a non-zero installer exit status.
C17_Witness ==
    /\ pc = "Failed"
    /\ entered = <<"Start", "Validating", "Fetching", "Installing", "Failed">>
    /\ LastEnv.code = 1603

\* Failed entered from Validating.
C17_WitnessValidating ==
    /\ pc = "Failed"
    /\ entered = <<"Start", "Validating", "Failed">>

\* Failed entered from Fetching.
C17_WitnessFetching ==
    /\ pc = "Failed"
    /\ entered = <<"Start", "Validating", "Fetching", "Failed">>

\* Done entered from Installing.
C17_WitnessDone ==
    /\ pc = "Done"
    /\ entered = <<"Start", "Validating", "Fetching", "Installing", "Done">>
    /\ LastEnv = Env("msiexec", 0, 0)

\* The two runs on the host were one of each revision, for the same URL, target
\* directory and token, and both have ended.
BothRevisionsRan ==
    /\ rerun
    /\ Terminal
    /\ prev.revision # revision
    /\ prev.url = url
    /\ prev.token = token
    /\ AbsPath(prev.dir) = AbsPath(target_directory)

\* The part of an installer command both revisions have: everything up to /quiet.
Shared(cmd) == IF cmd = <<>> THEN <<>> ELSE SubSeq(cmd, 1, 8)

\* A run ended in one of main's validation branches.
RejectedRun(f) == f.kind = "SystemExit"

\* C18: for a request the strict revision validates, the strict and the legacy
\* run that get the same answers from the network, the disk and the installer
\* enter the same stages, fetch to the same path (the second run leaves every
\* file as the first left it), hand the installer the same artifact, target
\* directory and token, and end alike with the same exit status; and a request the legacy revision rejects the strict one rejects too.
C18_StrictRefinesLegacy ==
    BothRevisionsRan
    => /\ (RequestValid(url, token, target_directory) /\ prev.envlog = envlog)
          => /\ prev.entered = entered
             /\ prev.final = pc
             /\ prev.exitCode = exitCode
             /\ Shared(prev.argv) = Shared(argv)
             /\ fs = fs0
       /\ LET legacy == IF revision = "legacy" THEN failure ELSE prev.failure
              strict == IF revision = "strict" THEN failure ELSE prev.failure
          IN RejectedRun(legacy) => RejectedRun(strict)

\* The legacy run installed, then the strict run of the same request did too.
C18_Witness ==
    /\ BothRevisionsRan
    /\ prev.revision = "legacy"
    /\ RequestValid(url, token, target_directory)
    /\ prev.envlog = envlog
    /\ pc = "Done"
    /\ Len(source) >= 1

\* Both revisions failed alike on the installer's exit status.
C18_WitnessFailed ==
    /\ BothRevisionsRan
    /\ prev.revision = "strict"
    /\ RequestValid(url, token, target_directory)
    /\ prev.envlog = envlog
    /\ pc = "Failed"
    /\ LastEnv = Env("msiexec", 1603, 0)

\* Both revisions rejected a missing target directory.
C18_WitnessRejected ==
    /\ BothRevisionsRan
    /\ RejectedRun(failure)
    /\ RejectedRun(prev.failure)
    /\ ~IsDir(AbsPath(target_directory))

\* The strict revision has decided on the token of this run: rejected it, or
\* gone past the pattern match.
TokenDecided ==
    /\ revision = "strict"
    /\ \/ BadTokenFormat
       \/ \E i \in 1..Len(checks) : checks[i] = "token_format"

\* C19: the length check never changes what the validator says about a token:
\* the pattern admits no string shorter than the minimum, a token matching the
\* pattern passes the length check, a token the length check rejects does not
\* match the pattern, and the strict revision accepts a token if and only if it
\* matches the pattern.
C19_LengthFilterRedundant ==
    /\ Len(PatternClasses) >= MinTokenLen
    /\ TokenPatternMatch(token) => ~TokenTooShort(token)
    /\ failure = Rejected("token_length") => ~TokenPatternMatch(token)
    /\ TokenDecided => (~BadTokenFormat <=> TokenPatternMatch(token))

\* A token one character short of the minimum, rejected by the length check.
C19_Witness ==
    /\ revision = "strict"
    /\ token = TokenNine
    /\ failure = Rejected("token_length")
    /\ checks = <<"url", "token_length">>

\* A token of the minimum length, rejected by the pattern.
C19_WitnessPattern ==
    /\ revision = "strict"
    /\ token = TokenTen
    /\ failure = Rejected("token_format")

\* A token that matches the pattern and went past both checks.
C19_WitnessAccepted ==
    /\ revision = "strict"
    /\ TokenPatternMatch(token)
    /\ TokenDecided
    /\ ~BadTokenFormat

====
